---- MODULE Spec2Model ----
(***************************************************************************)
(* claude-statusline: one process run.  main() deserializes one JSON      *)
(* document from standard input into ClaudeStatusLineData, then println!  *)
(* formats the five fields (each consulting the lazily initialised        *)
(* CONFIG cell) into one line on standard output.                         *)
(*                                                                         *)
(* Text is modelled as a sequence of characters; a glyph that the source  *)
(* writes as one symbol is one element, named in ASCII.                   *)
(***************************************************************************)
EXTENDS Integers, Sequences, FiniteSets, TLC

VARIABLES
    input,        \* the JSON document on standard input
    build,        \* how the binary was built (overflow checks, panic strategy, cfg!(test))
    file,         \* $HOME/.claude/statusline.toml as it is on disk now
    env,          \* the CLAUDE_STATUSLINE_<FIELD>_<ATTRIBUTE> environment variables
    fileChanges,  \* how often the file was rewritten by someone else during the run
    pc,           \* position of main()
    idx,          \* index (1..5) of the next argument of the format string
    data,         \* Option<ClaudeStatusLineData>: the result of from_reader
    CONFIG,       \* the OnceLock cell
    loads,        \* number of times the initialiser of CONFIG ran
    loadedFrom,   \* the file the initialiser read
    used,         \* per field: the configuration get_config() returned to its fmt
    painted,      \* per field: the color and icon its fmt used
    stdout,       \* [buf: LineWriter buffer, out: bytes that reached the descriptor]
    stderr,       \* what was reported on the error channel
    exitCode      \* process exit status, -1 while running

vars == <<input, build, file, env, fileChanges, pc, idx, data, CONFIG, loads,
          loadedFrom, used, painted, stdout, stderr, exitCode>>

----------------------------------------------------------------------------
(* Constants of main.rs *)

BRIGHT_GREEN == 46
BRIGHT_YELLOW == 226
DODGER_BLUE == 39
LAVENDAR == 141
MAGENTA_PINK == 213
ORANGE == 208
PINK_RED == 203

CONTEXT_ICON == <<"brain">>
COST_ICON == <<"moneybag">>
DURATION_ICON == <<"stopwatch">>
MODEL_ICON == <<"robot">>
TOKENS_ICON == <<"coin">>

CONTEXT_BAR_WIDTH == 10
CONTEXT_THRESHOLD_HIGH == 80
CONTEXT_THRESHOLD_MEDIUM == 70

FULL == "dark_shade"     \* the filled bar cell
EMPTY == "light_shade"   \* the empty bar cell
UP == "up_arrow"
DOWN == "down_arrow"
ESC == "ESC"

I32_MAX == 2147483647
I32_MIN == -I32_MAX - 1
U8_MAX == 255

Fields == {"cost", "duration", "model", "percentage", "tokens"}
Attrs == {"color", "icon"}

----------------------------------------------------------------------------
(* Option and Result *)

None == [some |-> FALSE]
Some(x) == [some |-> TRUE, v |-> x]
Ok(x) == [ok |-> TRUE, v |-> x]
Err == [ok |-> FALSE]

----------------------------------------------------------------------------
(* Text *)

Abs(n) == IF n < 0 THEN -n ELSE n

\* Rust's integer division and its float-to-integer cast truncate toward zero
\* (b > 0; \div rounds down)
TruncDiv(a, b) == IF a < 0 /\ a % b # 0 THEN (a \div b) + 1 ELSE a \div b

DigitChar(d) == <<"0", "1", "2", "3", "4", "5", "6", "7", "8", "9">>[d + 1]

RECURSIVE NatDigits(_)
NatDigits(n) == IF n < 10 THEN <<DigitChar(n)>>
                ELSE NatDigits(n \div 10) \o <<DigitChar(n % 10)>>

\* Display of an integer.  I32_MIN has no positive counterpart in 32 bits.
IntDigits(n) ==
    IF n >= 0 THEN NatDigits(n)
    ELSE IF n = I32_MIN THEN <<"-">> \o NatDigits(214748364) \o <<"8">>
    ELSE <<"-">> \o NatDigits(-n)

\* str::repeat
Repeat(c, n) == [i \in 1..n |-> c]

IsPrefixAt(hay, needle, i) ==
    /\ i + Len(needle) - 1 <= Len(hay)
    /\ \A k \in 1..Len(needle) : hay[i + k - 1] = needle[k]

\* str::contains
Contains(hay, needle) == \E i \in 1..(Len(hay) + 1) : IsPrefixAt(hay, needle, i)

CountAt(hay, needle) == Cardinality({i \in 1..Len(hay) : IsPrefixAt(hay, needle, i)})

\* ansi_term: Color::Fixed(color).paint(text), as Display writes it
Paint(color, text) ==
    <<ESC, "[", "3", "8", ";", "5", ";">> \o NatDigits(color) \o <<"m">>
        \o text \o <<ESC, "[", "0", "m">>

----------------------------------------------------------------------------
(* JSON values as serde_json hands them to the visitors.  A number keeps   *)
(* whether it was written as an integer or as a fraction/exponent literal: *)
(* u64 accepts only the former.  "big" is a literal such as 1e300 or       *)
(* -1e300, finite but beyond every integer type.                           *)

J_Absent == [t |-> "absent"]
J_Null == [t |-> "null"]
J_Str(s) == [t |-> "str", s |-> s]
J_Int(v) == [t |-> "int", v |-> v]
J_Float(num, den) == [t |-> "float", num |-> num, den |-> den]
J_Big(neg) == [t |-> "big", neg |-> neg]
J_Model(name) == [t |-> "obj", display_name |-> name]
J_Cost(usd, ms) == [t |-> "obj", total_cost_usd |-> usd, total_api_duration_ms |-> ms]
J_Context(pct, tin, tout) ==
    [t |-> "obj", used_percentage |-> pct, total_input_tokens |-> tin,
     total_output_tokens |-> tout]
J_Doc(top, model, cost, cw) ==
    [top |-> top, model |-> model, cost |-> cost, context_window |-> cw]

\* f64 values: a finite rational num/den, or a magnitude beyond 2^63
F64(num, den) == [k |-> "fin", num |-> num, den |-> den]
F64Huge(neg) == [k |-> "huge", neg |-> neg]
F64Zero == F64(0, 1)

\* Option<f64>
DeOptionF64(j) ==
    CASE j.t \in {"absent", "null"} -> Ok(None)
      [] j.t = "int" -> Ok(Some(F64(j.v, 1)))
      [] j.t = "float" -> Ok(Some(F64(j.num, j.den)))
      [] j.t = "big" -> Ok(Some(F64Huge(j.neg)))
      [] OTHER -> Err

\* (mutant) a count of the wrong type is dropped instead of refused
DeOptionU64_Lenient(j) ==
    IF j.t = "int" /\ j.v >= 0 THEN Ok(Some(j.v)) ELSE Ok(None)

\* Option<u64>: a present value must be a non-negative integer literal
DeOptionU64(j) ==
    CASE j.t \in {"absent", "null"} -> Ok(None)
      [] j.t = "int" -> IF j.v >= 0 THEN Ok(Some(j.v)) ELSE Err
      [] OTHER -> Err

DeAmount(o) ==
    LET r == DeOptionF64(o.total_cost_usd)
    IN  IF r.ok THEN Ok([total_cost_usd |-> r.v]) ELSE Err

DeDuration(o) ==
    LET r == DeOptionU64(o.total_api_duration_ms)
    IN  IF r.ok THEN Ok([total_api_duration_ms |-> r.v]) ELSE Err

DePercentage(o) ==
    LET r == DeOptionF64(o.used_percentage)
    IN  IF r.ok THEN Ok([used_percentage |-> r.v]) ELSE Err

DeTokens(o) ==
    LET i == DeOptionU64(o.total_input_tokens)
        u == DeOptionU64(o.total_output_tokens)
    IN  IF i.ok /\ u.ok
        THEN Ok([total_input_tokens |-> i.v, total_output_tokens |-> u.v])
        ELSE Err

\* Option<Cost>, its two members flattened
DeCost(j) ==
    CASE j.t \in {"absent", "null"} -> Ok(None)
      [] j.t = "obj" ->
            LET a == DeAmount(j)
                d == DeDuration(j)
            IN  IF a.ok /\ d.ok THEN Ok(Some([amount |-> a.v, duration |-> d.v]))
                ELSE Err
      [] OTHER -> Err

\* Option<ContextWindow>, its two members flattened
DeContextWindow(j) ==
    CASE j.t \in {"absent", "null"} -> Ok(None)
      [] j.t = "obj" ->
            LET p == DePercentage(j)
                k == DeTokens(j)
            IN  IF p.ok /\ k.ok THEN Ok(Some([percentage |-> p.v, tokens |-> k.v]))
                ELSE Err
      [] OTHER -> Err

\* Model: required, and so is its display_name: String
DeModel(j) ==
    IF j.t = "obj" /\ j.display_name.t = "str"
    THEN Ok([display_name |-> j.display_name.s])
    ELSE Err

DeRawClaudeStatusLineData(doc) ==
    IF doc.top # "object" THEN Err
    ELSE LET c == DeCost(doc.cost)
             w == DeContextWindow(doc.context_window)
             m == DeModel(doc.model)
         IN  IF c.ok /\ w.ok /\ m.ok
             THEN Ok([cost |-> c.v, context_window |-> w.v, model |-> m.v])
             ELSE Err

CostDefault ==
    [amount |-> [total_cost_usd |-> None],
     duration |-> [total_api_duration_ms |-> None]]

ContextWindowDefault ==
    [percentage |-> [used_percentage |-> None],
     tokens |-> [total_input_tokens |-> None, total_output_tokens |-> None]]

UnwrapOr(opt, default) == IF opt.some THEN opt.v ELSE default

\* (mutant) the context window is dropped when the cost is missing
From_Coupled(raw) ==
    LET cost == UnwrapOr(raw.cost, CostDefault)
        context == IF raw.cost.some THEN UnwrapOr(raw.context_window, ContextWindowDefault)
                   ELSE ContextWindowDefault
    IN  [cost |-> cost.amount,
         duration |-> cost.duration,
         model |-> raw.model,
         percentage |-> context.percentage,
         tokens |-> context.tokens]

\* impl From<RawClaudeStatusLineData> for ClaudeStatusLineData
From(raw) ==
    LET context == UnwrapOr(raw.context_window, ContextWindowDefault)
        cost == UnwrapOr(raw.cost, CostDefault)
    IN  [cost |-> cost.amount,
         duration |-> cost.duration,
         model |-> raw.model,
         percentage |-> context.percentage,
         tokens |-> context.tokens]

\* serde_json::from_reader::<ClaudeStatusLineData> (#[serde(from = ...)])
FromReader(doc) ==
    LET r == DeRawClaudeStatusLineData(doc)
    IN  IF r.ok THEN Ok(From(r.v)) ELSE Err

----------------------------------------------------------------------------
(* config.rs: the configuration and where it comes from *)

\* A value as a source of the config crate holds it, before it is typed
RawUnset == [t |-> "unset"]
RawInt(v) == [t |-> "int", v |-> v]
RawStr(s) == [t |-> "str", s |-> s]
RawArr == [t |-> "arr"]

Keys == Fields \X Attrs
EmptyMap == [k \in Keys |-> RawUnset]

ComponentConfig(color, icon) == [color |-> color, icon |-> icon]
ComponentConfigDefault == ComponentConfig(None, None)
ClaudeStatusLineConfigDefault == [f \in Fields |-> None]

get_color_or(self, default) == UnwrapOr(self.color, default)
get_icon_or(self, default) == UnwrapOr(self.icon, default)

IsDigit(c) == c \in {"0", "1", "2", "3", "4", "5", "6", "7", "8", "9"}
DigitValue(c) == CHOOSE d \in 0..9 : DigitChar(d) = c

RECURSIVE DigitsValue(_)
DigitsValue(s) ==
    IF Len(s) = 0 THEN 0
    ELSE 10 * DigitsValue(SubSeq(s, 1, Len(s) - 1)) + DigitValue(s[Len(s)])

\* str::parse of an unsigned number (at most 9 digits here)
ParseUInt(s) ==
    IF Len(s) \in 1..9 /\ \A i \in 1..Len(s) : IsDigit(s[i])
    THEN Ok(DigitsValue(s))
    ELSE Err

\* Option<u8> out of a source value: a number in range, or a string that parses to
\* one (no number outside 0..255 is drawn below)
DeU8(raw) ==
    CASE raw.t = "unset" -> Ok(None)
      [] raw.t = "int" -> IF raw.v \in 0..U8_MAX THEN Ok(Some(raw.v)) ELSE Err
      [] raw.t = "str" ->
            LET n == ParseUInt(raw.s)
            IN  IF n.ok /\ n.v <= U8_MAX THEN Ok(Some(n.v)) ELSE Err
      [] OTHER -> Err

\* Option<String> out of a source value: a string, or a number written out
DeString(raw) ==
    CASE raw.t = "unset" -> Ok(None)
      [] raw.t = "str" -> Ok(Some(raw.s))
      [] raw.t = "int" -> Ok(Some(IntDigits(raw.v)))
      [] OTHER -> Err

\* File::with_name(config_path).required(false): a file that cannot be found or
\* read contributes nothing; one that is read must parse
FileSource(f) ==
    CASE f.status \in {"absent", "unreadable"} -> Ok(EmptyMap)
      [] f.status = "unparsable" -> Err
      [] OTHER -> Ok(f.content)

\* Environment::with_prefix("CLAUDE_STATUSLINE").separator("_"):
\* CLAUDE_STATUSLINE_<FIELD>_<ATTRIBUTE> is the key <field>.<attribute>, its value a string
EnvironmentSource(e) ==
    [k \in Keys |-> IF e[k].some THEN RawStr(e[k].v) ELSE RawUnset]

\* (mutant) a later source replaces the whole table of a field it sets anything in
Merge_WholeTable(lo, hi) ==
    [k \in Keys |->
        IF \E a \in Attrs : hi[<<k[1], a>>].t # "unset" THEN hi[k] ELSE lo[k]]

\* a later source overrides an earlier one key by key
Merge(lo, hi) == [k \in Keys |-> IF hi[k].t # "unset" THEN hi[k] ELSE lo[k]]

\* Config::builder().add_source(file).add_source(environment).build()
BuildSettings(f, e) ==
    LET fs == FileSource(f)
    IN  IF fs.ok THEN Ok(Merge(fs.v, EnvironmentSource(e))) ELSE Err

\* settings.try_deserialize::<ClaudeStatusLineConfig>()
TryDeserialize(settings) ==
    LET color(f) == DeU8(settings[<<f, "color">>])
        icon(f) == DeString(settings[<<f, "icon">>])
        table(f) == settings[<<f, "color">>].t # "unset" \/ settings[<<f, "icon">>].t # "unset"
    IN  IF \A f \in Fields : color(f).ok /\ icon(f).ok
        THEN Ok([f \in Fields |->
                    IF table(f) THEN Some(ComponentConfig(color(f).v, icon(f).v))
                    ELSE None])
        ELSE Err

\* load_config_from: Err stands for the panic of either unwrap()
load_config_from(f, e) ==
    LET settings == BuildSettings(f, e)
    IN  IF settings.ok THEN TryDeserialize(settings.v) ELSE Err

\* the closure get_config() hands to get_or_init
InitConfig(b, f, e) ==
    IF b.test THEN Ok(ClaudeStatusLineConfigDefault) ELSE load_config_from(f, e)

\* (mutant) the closure runs on every call
get_or_init_Uncached(cell, b, f, e) ==
    LET r == InitConfig(b, f, e)
    IN  IF r.ok THEN [panic |-> FALSE, cell |-> Some(r.v), ran |-> TRUE]
        ELSE [panic |-> TRUE, cell |-> cell, ran |-> TRUE]

\* OnceLock::get_or_init: the closure runs only while the cell is empty.
\* [panic, cell, ran]
get_or_init(cell, b, f, e) ==
    IF cell.some THEN [panic |-> FALSE, cell |-> cell, ran |-> FALSE]
    ELSE LET r == InitConfig(b, f, e)
         IN  IF r.ok THEN [panic |-> FALSE, cell |-> Some(r.v), ran |-> TRUE]
             ELSE [panic |-> TRUE, cell |-> cell, ran |-> TRUE]

----------------------------------------------------------------------------
(* main.rs: the five Display implementations.  Each yields                 *)
(* [panic, text, color, icon].                                             *)

Rendered(text, color, icon) ==
    [panic |-> FALSE, text |-> text, color |-> color, icon |-> icon]
Panicked == [panic |-> TRUE]

\* (mutant) rounds down instead of toward zero
AsI32_Floor(x) ==
    IF x.k = "huge" THEN (IF x.neg THEN I32_MIN ELSE I32_MAX)
    ELSE x.num \div x.den

\* f64 as i32: truncates toward zero and saturates
AsI32(x) ==
    IF x.k = "huge" THEN (IF x.neg THEN I32_MIN ELSE I32_MAX)
    ELSE TruncDiv(x.num, x.den)

\* percent * 10 leaves the i32 range
MulOverflows(percent, by) ==
    percent > I32_MAX \div by \/ percent < TruncDiv(I32_MIN, by)

\* two's-complement product modulo 2^32, computed on 16-bit halves
WrappingMul(percent, by) ==
    LET hi == percent \div 65536
        lo == percent % 65536
        carry == (lo * by) \div 65536
        low == (lo * by) % 65536
        high == (hi * by + carry) % 65536
    IN  IF high >= 32768 THEN (high - 65536) * 65536 + low ELSE high * 65536 + low

\* (mutant) the thresholds are inclusive
PercentageColor_Inclusive(self) ==
    LET percent == AsI32(UnwrapOr(self.used_percentage, F64Zero))
    IN  IF percent >= CONTEXT_THRESHOLD_HIGH THEN PINK_RED
        ELSE IF percent >= CONTEXT_THRESHOLD_MEDIUM THEN BRIGHT_YELLOW
        ELSE BRIGHT_GREEN

\* Percentage::color
PercentageColor(self) ==
    LET percent == AsI32(UnwrapOr(self.used_percentage, F64Zero))
    IN  IF percent > CONTEXT_THRESHOLD_HIGH THEN PINK_RED
        ELSE IF percent > CONTEXT_THRESHOLD_MEDIUM THEN BRIGHT_YELLOW
        ELSE BRIGHT_GREEN

\* the bar; a count that is negative as i32 is beyond any capacity as usize, and
\* CONTEXT_BAR_WIDTH - filled underflows usize when filled > CONTEXT_BAR_WIDTH:
\* a panic with overflow checks, a count beyond any capacity without
Bar(filled) ==
    IF filled < 0 \/ filled > CONTEXT_BAR_WIDTH THEN Err
    ELSE Ok(Repeat(FULL, filled) \o Repeat(EMPTY, CONTEXT_BAR_WIDTH - filled))

\* impl fmt::Display for Percentage
PercentageFmt(self, config, b) ==
    LET c == UnwrapOr(config["percentage"], ComponentConfigDefault)
        icon == get_icon_or(c, CONTEXT_ICON)
        percent == AsI32(UnwrapOr(self.used_percentage, F64Zero))
        overflows == MulOverflows(percent, CONTEXT_BAR_WIDTH)
        product == IF overflows THEN WrappingMul(percent, CONTEXT_BAR_WIDTH)
                   ELSE percent * CONTEXT_BAR_WIDTH
        filled == TruncDiv(product, 100)
        bar == Bar(filled)
    IN  IF overflows /\ b.overflow_checks THEN Panicked
        ELSE IF ~bar.ok THEN Panicked
        ELSE Rendered(icon \o <<" ">>
                        \o Paint(PercentageColor(self),
                                 bar.v \o <<" ">> \o IntDigits(percent) \o <<"%">>),
                      PercentageColor(self), icon)

\* impl fmt::Display for Model
ModelFmt(self, config) ==
    LET c == UnwrapOr(config["model"], ComponentConfigDefault)
        color == get_color_or(c, ORANGE)
        icon == get_icon_or(c, MODEL_ICON)
    IN  Rendered(icon \o <<" ">> \o Paint(color, self.display_name), color, icon)

\* impl fmt::Display for Tokens
TokensFmt(self, config) ==
    LET c == UnwrapOr(config["tokens"], ComponentConfigDefault)
        color == get_color_or(c, MAGENTA_PINK)
        icon == get_icon_or(c, TOKENS_ICON)
        in == UnwrapOr(self.total_input_tokens, 0)
        output == UnwrapOr(self.total_output_tokens, 0)
    IN  Rendered(icon \o <<" ">>
                    \o Paint(color, NatDigits(in) \o <<UP, " ">> \o NatDigits(output) \o <<DOWN>>),
                 color, icon)

\* nearest integer to a/b (a >= 0, b > 0), ties to even
RoundHalfEven(a, b) ==
    LET q == a \div b
        r == a % b
    IN  IF 2 * r > b \/ (2 * r = b /\ q % 2 = 1) THEN q + 1 ELSE q

\* format!("{x:.2}") of a finite f64
Fixed2(x) ==
    LET cents == RoundHalfEven(100 * Abs(x.num), x.den)
        frac == cents % 100
    IN  (IF x.num < 0 THEN <<"-">> ELSE <<>>)
            \o NatDigits(cents \div 100) \o <<".">>
            \o <<DigitChar(frac \div 10), DigitChar(frac % 10)>>

\* impl fmt::Display for Amount
AmountFmt(self, config) ==
    LET c == UnwrapOr(config["cost"], ComponentConfigDefault)
        color == get_color_or(c, LAVENDAR)
        icon == get_icon_or(c, COST_ICON)
        cost == UnwrapOr(self.total_cost_usd, F64Zero)
    IN  Rendered(icon \o <<" ">> \o Paint(color, <<"$">> \o Fixed2(cost)), color, icon)

\* Millisecond::pretty_with, seconds combined with the milliseconds at precision 0:
\* the non-zero units, largest first, separated by a space
Pretty(ms) ==
    LET days == ms \div 86400000
        hours == (ms % 86400000) \div 3600000
        minutes == (ms % 3600000) \div 60000
        seconds == RoundHalfEven(ms % 60000, 1000)
        part(n, unit) == IF n = 0 THEN <<>> ELSE <<NatDigits(n) \o <<unit>>>>
        parts == part(days, "d") \o part(hours, "h") \o part(minutes, "m")
                    \o part(seconds, "s")
        join[i \in 0..Len(parts)] ==
            IF i = 0 THEN <<>>
            ELSE IF i = 1 THEN parts[1]
            ELSE join[i - 1] \o <<" ">> \o parts[i]
    IN  IF Len(parts) = 0 THEN <<"0", "s">> ELSE join[Len(parts)]

\* impl fmt::Display for Duration
DurationFmt(self, config) ==
    LET c == UnwrapOr(config["duration"], ComponentConfigDefault)
        color == get_color_or(c, DODGER_BLUE)
        icon == get_icon_or(c, DURATION_ICON)
        text == IF ~self.total_api_duration_ms.some \/ self.total_api_duration_ms.v = 0
                THEN <<"0", "s">>
                ELSE Pretty(self.total_api_duration_ms.v)
    IN  Rendered(icon \o <<" ">> \o Paint(color, text), color, icon)

----------------------------------------------------------------------------
(* main.rs: standard output and the process *)

\* (mutant) tokens before percentage
FieldOrder_Swapped == <<"model", "tokens", "percentage", "cost", "duration">>

\* the arguments of the format string of ClaudeStatusLineData, in order
FieldOrder == <<"model", "percentage", "tokens", "cost", "duration">>
Separator == <<" ", "|", " ">>

LastIndexOf(text, c) ==
    IF \E i \in 1..Len(text) : text[i] = c
    THEN CHOOSE i \in 1..Len(text) : text[i] = c /\ \A j \in (i + 1)..Len(text) : text[j] # c
    ELSE 0

\* Stdout is a LineWriter: a write holding a newline sends everything up to the
\* last newline to the descriptor, the rest waits in the buffer
StdoutWrite(s, text) ==
    LET all == s.buf \o text
        n == LastIndexOf(all, "\n")
    IN  [buf |-> SubSeq(all, n + 1, Len(all)), out |-> s.out \o SubSeq(all, 1, n)]

\* the runtime's cleanup drops the LineWriter, which flushes what it holds
StdoutFlush(s) == [buf |-> <<>>, out |-> s.out \o s.buf]

\* the literal piece of "{model} | {percentage} | {tokens} | {cost} | {duration}"
\* written before argument i
PieceBefore(i) == IF i > 1 THEN Separator ELSE <<>>

\* (mutant) the error of from_reader is swallowed
ExitStatus_Swallowed(ok) == 0

\* exit status of main() -> Result<(), Box<dyn Error>>
ExitStatus(ok) == IF ok THEN 0 ELSE 1

\* exit status of a panic: 101 when unwinding, SIGABRT when aborting
PanicStatus(b) == IF b.panic = "unwind" THEN 101 ELSE 134

\* the Display implementation of one field
FieldFmt(f, d, config, b) ==
    CASE f = "model" -> ModelFmt(d.model, config)
      [] f = "percentage" -> PercentageFmt(d.percentage, config, b)
      [] f = "tokens" -> TokensFmt(d.tokens, config)
      [] f = "cost" -> AmountFmt(d.cost, config)
      [] f = "duration" -> DurationFmt(d.duration, config)

\* main.rs:210  let data: ClaudeStatusLineData = serde_json::from_reader(io::stdin())?;
ReadInput ==
    /\ pc = "start"
    /\ LET r == FromReader(input)
       IN  IF r.ok
           THEN /\ data' = Some(r.v)
                /\ pc' = "fmt"
                /\ UNCHANGED <<stderr, exitCode>>
           ELSE /\ data' = None
                /\ pc' = "exit"
                /\ stderr' = "Error"
                /\ exitCode' = ExitStatus(FALSE)
    /\ UNCHANGED <<input, build, file, env, fileChanges, idx, CONFIG, loads,
                   loadedFrom, used, painted, stdout>>

\* main.rs:211  println!("{data}"): argument idx of the format string.  The literal
\* piece before it is written, then the field's fmt calls get_config(), formats
\* and writes.
Fmt(f) ==
    /\ pc = "fmt"
    /\ FieldOrder[idx] = f
    /\ LET before == StdoutWrite(stdout, PieceBefore(idx))
           g == get_or_init(CONFIG, build, file, env)
           r == IF g.panic THEN Panicked ELSE FieldFmt(f, data.v, g.cell.v, build)
       IN  /\ CONFIG' = g.cell
           /\ loads' = IF g.ran THEN loads + 1 ELSE loads
           /\ loadedFrom' = IF g.ran THEN Some(file) ELSE loadedFrom
           /\ IF r.panic
              THEN /\ stdout' = before
                   /\ pc' = "panicked"
                   /\ stderr' = "panic"
                   /\ UNCHANGED <<idx, used, painted>>
              ELSE /\ stdout' = StdoutWrite(before, r.text)
                   /\ pc' = IF idx = Len(FieldOrder) THEN "newline" ELSE "fmt"
                   /\ idx' = idx + 1
                   /\ used' = [used EXCEPT ![f] = Some(g.cell.v)]
                   /\ painted' = [painted EXCEPT ![f] = Some([color |-> r.color, icon |-> r.icon])]
                   /\ UNCHANGED stderr
    /\ UNCHANGED <<input, build, file, env, fileChanges, data, exitCode>>

ModelDisplay == Fmt("model")
PercentageDisplay == Fmt("percentage")
TokensDisplay == Fmt("tokens")
AmountDisplay == Fmt("cost")
DurationDisplay == Fmt("duration")

\* main.rs:211-212  the newline of println!, then Ok(())
PrintlnEnd ==
    /\ pc = "newline"
    /\ stdout' = StdoutFlush(StdoutWrite(stdout, <<"\n">>))
    /\ pc' = "exit"
    /\ exitCode' = ExitStatus(TRUE)
    /\ UNCHANGED <<input, build, file, env, fileChanges, idx, data, CONFIG, loads,
                   loadedFrom, used, painted, stderr>>

\* a panic ends the process: unwinding runs the runtime's cleanup, which flushes
\* standard output; aborting loses what is buffered
PanicExit ==
    /\ pc = "panicked"
    /\ stdout' = IF build.panic = "unwind" THEN StdoutFlush(stdout) ELSE stdout
    /\ pc' = "exit"
    /\ exitCode' = PanicStatus(build)
    /\ UNCHANGED <<input, build, file, env, fileChanges, idx, data, CONFIG, loads,
                   loadedFrom, used, painted, stderr>>

----------------------------------------------------------------------------
(* The surroundings *)

MaxFileChanges == 1
MaxPercent == 112
MinPercent == 12

FileOf(status, content) == [status |-> status, content |-> content]
ContentOf(f, color, icon) ==
    [k \in Keys |-> IF k = <<f, "color">> THEN color
                    ELSE IF k = <<f, "icon">> THEN icon
                    ELSE RawUnset]
EnvOf(f, color, icon) ==
    [k \in Keys |-> IF k = <<f, "color">> THEN color
                    ELSE IF k = <<f, "icon">> THEN icon
                    ELSE None]

\* what someone else leaves in place of the file while the process runs
Rewritten(f) ==
    IF f.status = "ok" THEN FileOf("absent", EmptyMap)
    ELSE FileOf("ok", ContentOf("tokens", RawInt(99), RawStr(<<"Z">>)))

\* the file is rewritten or removed between two steps of the process
FileChange ==
    /\ pc = "fmt"
    /\ fileChanges < MaxFileChanges
    /\ file' = Rewritten(file)
    /\ fileChanges' = fileChanges + 1
    /\ UNCHANGED <<input, build, env, pc, idx, data, CONFIG, loads, loadedFrom,
                   used, painted, stdout, stderr, exitCode>>

BuildOf(checks, panic, test) == [overflow_checks |-> checks, panic |-> panic, test |-> test]
Debug == BuildOf(TRUE, "unwind", FALSE)
Release == BuildOf(FALSE, "unwind", FALSE)
ReleaseAbort == BuildOf(FALSE, "abort", FALSE)
Test == BuildOf(TRUE, "unwind", TRUE)
Builds == {Debug, Release, ReleaseAbort, Test}

Red == <<"r", "e", "d">>
Files ==
    {FileOf(s, EmptyMap) : s \in {"absent", "unreadable", "unparsable"}}
    \cup {FileOf("ok", ContentOf(f, c, i)) :
            f \in Fields,
            c \in {RawUnset, RawInt(200), RawStr(Red)},
            i \in {RawUnset, RawStr(<<"F">>), RawArr}}
    \cup {FileOf("ok", ContentOf("cost", RawStr(<<"9", "9">>), RawInt(7)))}
Envs ==
    {EnvOf(f, c, i) :
        f \in Fields,
        c \in {None, Some(<<"2", "0", "1">>), Some(Red)},
        i \in {None, Some(<<"E">>)}}
    \cup {EnvOf("duration", Some(<<>>), None)}

NoEnv == EnvOf("model", None, None)
NoConfig == <<FileOf("absent", EmptyMap), NoEnv>>
SomeConfig ==
    <<FileOf("ok", ContentOf("percentage", RawInt(200), RawStr(<<"F">>))),
      EnvOf("model", None, Some(<<"E", " ", "|", " ">>))>>
BadConfig == <<FileOf("unparsable", EmptyMap), NoEnv>>

NameM == <<"M">>
NamePipe == <<"A", " ", "|", " ", "B">>
NameLines == <<"X", "\n", "Y">>

Junk == J_Str(<<"x">>)
BaseCost == J_Cost(J_Float(50, 1), J_Int(60000))
BaseContext == J_Context(J_Float(20, 1), J_Int(5), J_Int(10))
Base == J_Doc("object", J_Model(J_Str(NameM)), BaseCost, BaseContext)
Minimal == J_Doc("object", J_Model(J_Str(NameM)), J_Absent, J_Absent)

\* every combination of presence and absence
PresenceInputs ==
    {J_Doc("object", J_Model(J_Str(NameM)), c, w) :
        c \in {J_Absent} \cup
              {J_Cost(u, m) : u \in {J_Absent, J_Float(50, 1)}, m \in {J_Absent, J_Int(60000)}},
        w \in {J_Absent} \cup
              {J_Context(p, i, o) : p \in {J_Absent, J_Float(20, 1)},
                                    i \in {J_Absent, J_Int(5)},
                                    o \in {J_Absent, J_Int(10)}}}

\* one place of the document null, of the wrong type or out of range
MalformedInputs ==
    {J_Doc(t, Base.model, Base.cost, Base.context_window) : t \in {"invalid", "scalar"}}
    \cup {[Base EXCEPT !.model = m] :
            m \in {J_Absent, J_Null, J_Int(5), Junk,
                   J_Model(J_Absent), J_Model(J_Null), J_Model(J_Int(5))}}
    \cup {[Base EXCEPT !.cost = c] : c \in {J_Null, J_Int(5), Junk}}
    \cup {[Base EXCEPT !.context_window = c] : c \in {J_Null, J_Int(5), Junk}}
    \cup {[Base EXCEPT !.cost.total_cost_usd = v] : v \in {J_Null, Junk}}
    \cup {[Base EXCEPT !.cost.total_api_duration_ms = v] :
            v \in {J_Null, Junk, J_Int(-1), J_Float(3, 2), J_Float(1000, 1), J_Big(FALSE)}}
    \cup {[Base EXCEPT !.context_window.used_percentage = v] : v \in {J_Null, Junk}}
    \cup {[Base EXCEPT !.context_window.total_input_tokens = v] :
            v \in {J_Null, Junk, J_Int(-1), J_Float(21, 2), J_Big(TRUE)}}
    \cup {[Base EXCEPT !.context_window.total_output_tokens = v] :
            v \in {J_Null, Junk, J_Int(-1), J_Float(10, 1)}}
    \cup {[Minimal EXCEPT !.cost = J_Cost(J_Absent, v)] : v \in {J_Int(-5), Junk}}

\* the used_percentage values
PercentValues ==
    {J_Int(v) : v \in (-MinPercent)..MaxPercent}
    \cup {J_Float(2 * v + 1, 2) : v \in (-MinPercent)..0}
    \cup {J_Float(2 * v + 1, 2) : v \in {69, 70, 79, 80, 99, 100, 109, MaxPercent}}
    \cup {J_Float(799, 10), J_Float(801, 10), J_Float(-999, 100)}
    \cup {J_Int(1000), J_Int(-1000), J_Int(214748364), J_Int(214748365),
          J_Int(-214748365), J_Int(I32_MAX), J_Int(I32_MIN), J_Big(FALSE), J_Big(TRUE)}
PercentInputs ==
    {[Base EXCEPT !.context_window.used_percentage = p] : p \in PercentValues}

\* amounts, durations and token counts
ValueInputs ==
    {[Base EXCEPT !.cost.total_cost_usd = u] :
        u \in {J_Int(0), J_Int(3), J_Float(1, 2), J_Float(1, 8), J_Float(3, 8),
               J_Float(1999, 1000), J_Float(-1, 2)}}
    \cup {[Base EXCEPT !.cost.total_api_duration_ms = m] :
            m \in {J_Int(0), J_Int(1000), J_Int(61000), J_Int(3661000), J_Int(90000000)}}
    \cup {J_Doc("object", J_Model(J_Str(NameM)), J_Absent, J_Context(J_Int(50), i, o)) :
            i \in {J_Int(0), J_Int(1234)}, o \in {J_Int(0), J_Int(567)}}

NameInputs ==
    {[d EXCEPT !.model = J_Model(J_Str(n))] :
        d \in {Base, Minimal}, n \in {NamePipe, NameLines, <<>>}}

ShapeInputs == PresenceInputs \cup MalformedInputs \cup ValueInputs \cup NameInputs

Init ==
    /\ \/ /\ input \in ShapeInputs
          /\ \E c \in {NoConfig, SomeConfig, BadConfig} : file = c[1] /\ env = c[2]
          /\ build \in Builds
       \/ /\ input \in PercentInputs
          /\ \E c \in {NoConfig, SomeConfig} : file = c[1] /\ env = c[2]
          /\ build \in Builds
       \/ /\ input = Base
          /\ file \in Files
          /\ env \in Envs
          /\ build = Release
    /\ fileChanges = 0
    /\ pc = "start"
    /\ idx = 1
    /\ data = None
    /\ CONFIG = None
    /\ loads = 0
    /\ loadedFrom = None
    /\ used = [f \in Fields |-> None]
    /\ painted = [f \in Fields |-> None]
    /\ stdout = [buf |-> <<>>, out |-> <<>>]
    /\ stderr = "none"
    /\ exitCode = -1

Next ==
    \/ ReadInput
    \/ ModelDisplay
    \/ PercentageDisplay
    \/ TokensDisplay
    \/ AmountDisplay
    \/ DurationDisplay
    \/ PrintlnEnd
    \/ PanicExit
    \/ FileChange

Spec == Init /\ [][Next]_vars

----------------------------------------------------------------------------
(* Vocabulary of the properties *)

Written == stdout.out \o stdout.buf
ParseFailed == pc = "exit" /\ ~data.some
Succeeded == pc = "exit" /\ exitCode = 0

Missing(j) == j.t \in {"absent", "null"}
IsNumber(j) == j.t \in {"int", "float", "big"}
IsCount(j) == j.t = "int" /\ j.v >= 0

DisplayNameAbsent ==
    \/ input.model.t = "absent"
    \/ input.model.t = "obj" /\ input.model.display_name.t = "absent"

CostWellTyped ==
    \/ Missing(input.cost)
    \/ /\ input.cost.t = "obj"
       /\ Missing(input.cost.total_cost_usd) \/ IsNumber(input.cost.total_cost_usd)
       /\ Missing(input.cost.total_api_duration_ms) \/ IsCount(input.cost.total_api_duration_ms)

ContextWellTyped ==
    \/ Missing(input.context_window)
    \/ /\ input.context_window.t = "obj"
       /\ \/ Missing(input.context_window.used_percentage)
          \/ IsNumber(input.context_window.used_percentage)
       /\ \/ Missing(input.context_window.total_input_tokens)
          \/ IsCount(input.context_window.total_input_tokens)
       /\ \/ Missing(input.context_window.total_output_tokens)
          \/ IsCount(input.context_window.total_output_tokens)

WellTyped ==
    /\ input.top = "object"
    /\ input.model.t = "obj"
    /\ input.model.display_name.t = "str"
    /\ CostWellTyped
    /\ ContextWellTyped

\* the member `name` of an optional section, J_Absent when the section is missing
Member(section, name) == IF section.t = "obj" THEN section[name] ELSE J_Absent
InUsd == Member(input.cost, "total_cost_usd")
InMs == Member(input.cost, "total_api_duration_ms")
InPct == Member(input.context_window, "used_percentage")
InTokensIn == Member(input.context_window, "total_input_tokens")
InTokensOut == Member(input.context_window, "total_output_tokens")

NumberOf(j) ==
    CASE j.t = "int" -> F64(j.v, 1)
      [] j.t = "float" -> F64(j.num, j.den)
      [] j.t = "big" -> F64Huge(j.neg)
KeptNumber(j) == IF Missing(j) THEN None ELSE Some(NumberOf(j))
KeptCount(j) == IF Missing(j) THEN None ELSE Some(j.v)

TextOf(f) == FieldFmt(f, data.v, CONFIG.v, build).text

\* the line as the format string lays it out
StatusLine ==
    TextOf("model") \o <<" ", "|", " ">> \o TextOf("percentage") \o <<" ", "|", " ">>
        \o TextOf("tokens") \o <<" ", "|", " ">> \o TextOf("cost") \o <<" ", "|", " ">>
        \o TextOf("duration")

EmptyBar == [i \in 1..10 |-> EMPTY]

----------------------------------------------------------------------------
(* C1 *)

----------------------------------------------------------------------------
(* C2 *)

\* C2 as stated: loading the configuration never aborts the process; whenever the
\* initialiser of CONFIG has run, a configuration is in place.
C2_ConfigLoadNeverAborts == loads > 0 => CONFIG.some

----------------------------------------------------------------------------
(* C3 *)

FileAtLoad(k) ==
    IF loadedFrom.v.status = "ok" THEN loadedFrom.v.content[k] ELSE RawUnset

HardcodedColor(f) ==
    CASE f = "cost" -> 141
      [] f = "duration" -> 39
      [] f = "model" -> 208
      [] f = "tokens" -> 213
      [] f = "percentage" -> 46

HardcodedIcon(f) ==
    CASE f = "cost" -> <<"moneybag">>
      [] f = "duration" -> <<"stopwatch">>
      [] f = "model" -> <<"robot">>
      [] f = "tokens" -> <<"coin">>
      [] f = "percentage" -> <<"brain">>

ColorValue(raw) == IF raw.t = "int" THEN raw.v ELSE DigitsValue(raw.s)
IconValue(raw) == IF raw.t = "str" THEN raw.s ELSE IntDigits(raw.v)

ExpectedColor(f) ==
    IF env[<<f, "color">>].some THEN DigitsValue(env[<<f, "color">>].v)
    ELSE IF FileAtLoad(<<f, "color">>).t # "unset" THEN ColorValue(FileAtLoad(<<f, "color">>))
    ELSE HardcodedColor(f)

ExpectedIcon(f) ==
    IF env[<<f, "icon">>].some THEN env[<<f, "icon">>].v
    ELSE IF FileAtLoad(<<f, "icon">>).t # "unset" THEN IconValue(FileAtLoad(<<f, "icon">>))
    ELSE HardcodedIcon(f)

\* C3 as stated: for each of the five fields, the color and the icon it is rendered
\* with are the environment override if set, else the file's value, else the
\* hardcoded default.
C3_Original ==
    \A f \in Fields :
        (painted[f].some /\ ~build.test) =>
            /\ painted[f].v.color = ExpectedColor(f)
            /\ painted[f].v.icon = ExpectedIcon(f)

\* C3, amended: the precedence environment > file > hardcoded default holds for the
\* icon of each of the five fields and for the color of cost, duration, model and
\* tokens, each attribute on its own.  The percentage color is resolved into the
\* configuration by the same precedence but never used: there is no default for
\* it and the field is painted with the threshold color of its percent.
C3_PrecedencePerAttribute ==
    ~build.test =>
        /\ \A f \in Fields :
              painted[f].some =>
                 /\ painted[f].v.icon = ExpectedIcon(f)
                 /\ f # "percentage" => painted[f].v.color = ExpectedColor(f)
        /\ painted["percentage"].some =>
              painted["percentage"].v.color = PercentageColor(data.v.percentage)
        /\ CONFIG.some =>
              \A f \in Fields :
                 (env[<<f, "color">>].some \/ FileAtLoad(<<f, "color">>).t # "unset") =>
                    /\ CONFIG.v[f].some
                    /\ CONFIG.v[f].v.color = Some(ExpectedColor(f))

\* the environment sets the icon of tokens, the file its color: both are used
C3_Witness ==
    /\ ~build.test
    /\ painted["tokens"].some
    /\ env[<<"tokens", "icon">>].some
    /\ ~env[<<"tokens", "color">>].some
    /\ FileAtLoad(<<"tokens", "color">>) = RawInt(200)
    /\ painted["tokens"].v = [color |-> 200, icon |-> <<"E">>]

----------------------------------------------------------------------------
(* C4 *)

\* C4 as stated: whatever used_percentage holds, formatting the percentage field
\* completes, and the filled and the empty cells of its bar are 10 together.
C4_PercentageAlwaysRenders ==
    /\ ~(pc = "panicked" /\ CONFIG.some /\ FieldOrder[idx] = "percentage")
    /\ painted["percentage"].some =>
          CountAt(Written, <<FULL>>) + CountAt(Written, <<EMPTY>>) = 10

----------------------------------------------------------------------------
(* C5 *)

ShownPercent == AsI32(UnwrapOr(data.v.percentage.used_percentage, F64Zero))

\* C5: the color the percentage field is painted with depends on the integer
\* percent alone: above 80 alert (203), above 70 up to 80 warning (226), else
\* normal (46), whatever the configuration holds.
C5_ColorByThreshold ==
    painted["percentage"].some =>
        /\ painted["percentage"].v.color =
              (IF ShownPercent > 80 THEN 203 ELSE IF ShownPercent > 70 THEN 226 ELSE 46)
        /\ Contains(Written, painted["percentage"].v.icon
                                \o <<" ", ESC, "[", "3", "8", ";", "5", ";">>
                                \o NatDigits(painted["percentage"].v.color) \o <<"m">>)

\* 80 percent is painted with the warning color though the configuration sets a color
C5_Witness ==
    /\ painted["percentage"].some
    /\ ShownPercent = 80
    /\ painted["percentage"].v.color = 226
    /\ CONFIG.v["percentage"].some
    /\ CONFIG.v["percentage"].v.color = Some(200)

----------------------------------------------------------------------------
(* C6 *)

\* C6: for every input with a display name and every combination of present and
\* absent sub-records and fields, normalization succeeds, each absent value is the
\* default on its own and each present value is kept as it was; an absent value
\* is rendered as 0% under an all-empty bar, 0 input tokens, 0 output tokens, $0.00
\* and 0s, and the display name is rendered as given.
C6_AbsentDefaultsPresentKept ==
    /\ (pc # "start" /\ input \in PresenceInputs) => data.some
    /\ data.some =>
        /\ data.v.model.display_name = input.model.display_name.s
        /\ data.v.cost.total_cost_usd = KeptNumber(InUsd)
        /\ data.v.duration.total_api_duration_ms = KeptCount(InMs)
        /\ data.v.percentage.used_percentage = KeptNumber(InPct)
        /\ data.v.tokens.total_input_tokens = KeptCount(InTokensIn)
        /\ data.v.tokens.total_output_tokens = KeptCount(InTokensOut)
    /\ Succeeded =>
        /\ Contains(stdout.out, <<"m">> \o input.model.display_name.s \o <<ESC>>)
        /\ Missing(InPct) => Contains(stdout.out, <<"m">> \o EmptyBar \o <<" ", "0", "%", ESC>>)
        /\ Missing(InTokensIn) => Contains(stdout.out, <<"m", "0", UP, " ">>)
        /\ Missing(InTokensOut) => Contains(stdout.out, <<UP, " ", "0", DOWN, ESC>>)
        /\ Missing(InUsd) => Contains(stdout.out, <<"m", "$", "0", ".", "0", "0", ESC>>)
        /\ Missing(InMs) => Contains(stdout.out, <<"m", "0", "s", ESC>>)

\* a line was printed for an input with neither cost nor context_window
C6_Witness ==
    /\ Succeeded
    /\ input.cost.t = "absent"
    /\ input.context_window.t = "absent"
    /\ Contains(stdout.out, <<"0", "%">>)
    /\ Contains(stdout.out, <<"0", UP>>)
    /\ Contains(stdout.out, <<"0", DOWN>>)
    /\ Contains(stdout.out, <<"$", "0", ".", "0", "0">>)
    /\ Contains(stdout.out, <<"0", "s">>)
    /\ Contains(stdout.out, NameM)

----------------------------------------------------------------------------
(* C7 *)

\* C7: a line that was printed is the five field segments in the order model,
\* percentage, tokens, cost, duration with " | " between neighbours: four
\* separators besides those a display name or an icon holds itself.
C7_FiveSegmentsInOrder ==
    Succeeded =>
        /\ \A f \in Fields : painted[f].some
        /\ stdout.out = StatusLine \o <<"\n">>
        /\ CountAt(stdout.out, <<" ", "|", " ">>) =
              4 + CountAt(TextOf("model"), <<" ", "|", " ">>)
                + CountAt(TextOf("percentage"), <<" ", "|", " ">>)
                + CountAt(TextOf("tokens"), <<" ", "|", " ">>)
                + CountAt(TextOf("cost"), <<" ", "|", " ">>)
                + CountAt(TextOf("duration"), <<" ", "|", " ">>)

\* a line of five segments and four separators for an input with only a model
C7_Witness ==
    /\ Succeeded
    /\ input = Minimal
    /\ CountAt(stdout.out, <<" ", "|", " ">>) = 4
    /\ Contains(stdout.out, <<"|", " ", "stopwatch", " ">>)

----------------------------------------------------------------------------
(* C8 *)

\* C8: nothing is written to standard output before the input has been parsed; a
\* run that ends at the parse (input not valid JSON, display name missing) exits
\* non-zero with nothing written; a run that exits 0 has written the complete
\* status line and its newline, once.
C8_OutputOnlyAfterParse ==
    /\ Written # <<>> => data.some
    /\ ParseFailed => exitCode # 0 /\ Written = <<>>
    /\ (pc = "exit" /\ (input.top = "invalid" \/ DisplayNameAbsent)) =>
          exitCode # 0 /\ Written = <<>>
    /\ exitCode = 0 =>
          /\ data.some
          /\ stdout.buf = <<>>
          /\ stdout.out = StatusLine \o <<"\n">>

\* a run without display name ended non-zero with nothing written
C8_Witness ==
    /\ pc = "exit"
    /\ input.top = "object"
    /\ DisplayNameAbsent
    /\ exitCode = 1
    /\ Written = <<>>

----------------------------------------------------------------------------
(* C9 *)

\* C9: the initialiser of CONFIG runs at most once, in the first get_config() of
\* the run; once CONFIG holds a configuration it never changes, and every field
\* is formatted from the configuration CONFIG holds.
C9_ConfigInitialisedOnce ==
    [][/\ loads' <= 1
       /\ loads' # loads => ~CONFIG.some /\ pc = "fmt" /\ idx = 1
       /\ CONFIG.some => CONFIG' = CONFIG
       /\ \A f \in Fields : used'[f].some => used'[f] = CONFIG']_vars

\* the file was rewritten after the load and all five fields used what was loaded
C9_Witness ==
    /\ Succeeded
    /\ loads = 1
    /\ fileChanges = 1
    /\ loadedFrom.v # file
    /\ ~build.test
    /\ \A f \in Fields : used[f] = CONFIG

----------------------------------------------------------------------------
(* C10 *)

Floor(x) == x.num \div x.den
PercentText(n) == <<" ">> \o IntDigits(n) \o <<"%", ESC>>

\* C10 as stated: the percent shown is floor(used_percentage), 0 when absent.
C10_Original ==
    (painted["percentage"].some /\ UnwrapOr(data.v.percentage.used_percentage, F64Zero).k = "fin") =>
        Contains(Written, PercentText(Floor(UnwrapOr(data.v.percentage.used_percentage, F64Zero))))

Truncated(x) ==
    IF x.k = "huge" THEN (IF x.neg THEN -2147483647 - 1 ELSE 2147483647)
    ELSE IF x.num >= 0 THEN x.num \div x.den
    ELSE IF x.num % x.den = 0 THEN x.num \div x.den
    ELSE (x.num \div x.den) + 1

\* C10, amended: the percent shown is used_percentage truncated toward zero and
\* clamped to the i32 range, 0 when absent (floor(used_percentage) for values from
\* 0 up to the i32 maximum); for a percent in 0..100 the bar holds
\* percent * 10 / 100 = floor(percent / 10) filled cells and the rest of 10 empty,
\* none filled at 0 and all filled at 100, followed by " {percent}%" of the
\* same integer.
C10_PercentTruncatedAndBar ==
    painted["percentage"].some =>
        LET p == Truncated(UnwrapOr(data.v.percentage.used_percentage, F64Zero))
        IN  /\ Contains(Written, PercentText(p))
            /\ p \in 0..100 =>
                /\ (p * 10) \div 100 = p \div 10
                /\ Contains(Written, <<"m">> \o [i \in 1..(p \div 10) |-> FULL]
                                        \o [i \in 1..(10 - p \div 10) |-> EMPTY]
                                        \o PercentText(p))
            /\ p = 0 => Contains(Written, <<"m">> \o EmptyBar \o PercentText(0))
            /\ p = 100 => Contains(Written, <<"m">> \o [i \in 1..10 |-> FULL] \o PercentText(100))

\* -0.5 percent is shown as 0%
C10_Witness ==
    /\ painted["percentage"].some
    /\ data.v.percentage.used_percentage = Some(F64(-1, 2))
    /\ Contains(Written, <<EMPTY, " ", "0", "%", ESC>>)

====
